---- MODULE Spec2Model ----
(***************************************************************************)
(* BMW Connected Drive integration: the account wrapper, its listener      *)
(* fan-out, the periodic trigger, the command dispatcher and the           *)
(* setup-entry / unload-entry / config-flow handlers of                    *)
(* custom_components/bmw_connected_drive.                                  *)
(*                                                                         *)
(* The host (service registry, scheduler, platform teardown) and the       *)
(* vendor session are the environment: their outcomes are chosen with \E.  *)
(***************************************************************************)
EXTENDS Integers, Sequences, FiniteSets, TLC

\* ---------------------------------------------------------------- bounds
MaxAccounts == 2        \* account wrappers constructed in one behaviour
MaxListeners == 2       \* listeners registered on one account
MaxFailures == 1        \* teardown steps of one gather that report failure

\* ------------------------------------------------------------- constants
EntryIds == {"e1", "e2"}
\* entry.data[CONF_READ_ONLY] of each entry
ReadOnly == [e1 |-> FALSE, e2 |-> TRUE]
Vins == {"v1", "v2"}
\* vehicle collections the vendor may return from a successful refresh
Fleets == {{"v1"}}

BMW_COMPONENTS == {"binary_sensor", "device_tracker", "lock", "notify", "sensor"}
SERVICE_UPDATE_STATE == "update_state"
_SERVICE_MAP == [light_flash |-> "trigger_remote_light_flash",
                 sound_horn |-> "trigger_remote_horn",
                 activate_air_conditioning |-> "trigger_remote_air_conditioning"]
RemoteCommands == DOMAIN _SERVICE_MAP
AllCommands == RemoteCommands \cup {SERVICE_UPDATE_STATE}

\* outcome of one call into the environment: it returns, raises an I/O
\* error (OSError or a subclass), or raises any other exception
Outcomes == {"ok", "OSError", "Error"}

\* --------------------------------------------------------- account wrapper
\* BMWConnectedDriveAccount.__init__: no listener, nothing cached yet
NewAccount(e, ro) ==
    [entry |-> e, read_only |-> ro, listeners |-> <<>>, snapshot |-> {}]

\* what the environment decides for one update() call: the vendor refresh
\* outcome, the vehicles it returns, and the first listener that raises
\* (fail = 0: none raises) with the kind of exception it raises
Envs ==
    [refresh : {"OSError", "Error"}, fleet : {{}}, fail : {0}, kind : {"ok"}]
    \cup [refresh : {"ok"}, fleet : Fleets, fail : {0}, kind : {"ok"}]
    \cup [refresh : {"ok"}, fleet : Fleets, fail : 1..MaxListeners,
          kind : {"OSError", "Error"}]

\* the choices that differ for an account: a listener that raises is one
\* of its listeners
EnvsFor(acc) == {env \in Envs : env.fail <= Len(acc.listeners)}

\* the choices for the update() calls of one loop over accounts ids
EnvsForAll(accs, ids) ==
    {envs \in [1..Len(ids) -> Envs] :
        \A i \in 1..Len(ids) : envs[i] \in EnvsFor(accs[ids[i]])}

\* outcome of the listener at position i under env
ListenerOutcome(env, i) == IF env.fail = i THEN env.kind ELSE "ok"

RECURSIVE FanOut(_, _, _)
\* for listener in self._update_listeners: listener()
\* the loop stops at the first listener that raises
FanOut(ls, env, i) ==
    IF i > Len(ls) THEN [invoked |-> <<>>, exc |-> "none"]
    ELSE IF ListenerOutcome(env, i) # "ok"
         THEN [invoked |-> <<ls[i]>>, exc |-> ListenerOutcome(env, i)]
         ELSE LET r == FanOut(ls, env, i + 1)
              IN  [invoked |-> <<ls[i]>> \o r.invoked, exc |-> r.exc]

\* the try block of update(): the vendor refresh, then the fan-out
TryBody(acc, env) ==
    IF env.refresh # "ok"
    THEN [snapshot |-> acc.snapshot, invoked |-> <<>>, exc |-> env.refresh]
    ELSE LET r == FanOut(acc.listeners, env, 1)
         IN  [snapshot |-> env.fleet, invoked |-> r.invoked, exc |-> r.exc]

\* Catches with the except clause naming an exception that is never raised
Catches_NoHandler(exc) == exc = "ValueError"

\* except OSError: logged and swallowed; anything else propagates
Catches(exc) == exc = "OSError"

\* BMWConnectedDriveAccount.update
Update(acc, env) ==
    LET b == TryBody(acc, env)
    IN  [snapshot |-> b.snapshot,
         invoked  |-> b.invoked,
         raised   |-> IF Catches(b.exc) THEN "none" ELSE b.exc,
         logged   |-> Catches(b.exc)]

\* one update() call as the handlers record it
CallRecord(id, acc, env, by) ==
    LET u == Update(acc, env)
        f == IF env.refresh = "ok" THEN FanOut(acc.listeners, env, 1).exc
             ELSE "none"
    IN  [account |-> id, by |-> by, refresh |-> env.refresh,
         listeners |-> acc.listeners, invoked |-> u.invoked, fanout |-> f,
         raised |-> u.raised, before |-> acc.snapshot, after |-> u.snapshot]

\* the account after an update() call
Updated(acc, env) == [acc EXCEPT !.snapshot = Update(acc, env).snapshot]

\* ------------------------------------------------------------------ state
VARIABLES
    entries,    \* host: config entry id -> "none" (no such entry),
                \* "not_loaded" (configured; set up next, also after a
                \* setup that failed), "loaded", "failed_unload"
    dataInit,   \* DOMAIN in hass.data
    data,       \* hass.data[DOMAIN]: insertion-ordered <<[id, account]>>
    accounts,   \* account wrappers constructed so far, by object identity
    services,   \* hass.services: command names registered under DOMAIN
    triggers,   \* accounts whose update is registered as a periodic trigger
    last,       \* the handler that ran last and how it ended
    calls,      \* update() calls made by the handler that ran last
    remote,     \* remote-control methods invoked by the last dispatch
    unloaded,   \* accounts that an unload-entry took out of the map
    setups,     \* setup-entry calls that completed successfully
    clock       \* the host's wall clock and the time patterns registered
                \* with track_utc_time_change, where they are followed

vars == <<entries, dataInit, data, accounts, services, triggers, last, calls,
          remote, unloaded, setups, clock>>

\* the clock is not followed
ClockIdle == [now |-> [minute |-> 0, second |-> 0], setupAt |-> <<>>,
              sched |-> <<>>, fired |-> {}, read |-> FALSE]

NoUnload == [unload_ok |-> TRUE, unload_services |-> TRUE, attempted |-> {},
             failed |-> FALSE, popped |-> FALSE, len |-> 0]

Last(op, e, result) ==
    [op |-> op, entry |-> e, result |-> result, before |-> {},
     inMap |-> {}, unload |-> NoUnload]

\* ------------------------------------------------- hass.data[DOMAIN] (dict)
DataKeys == {data[i].id : i \in 1..Len(data)}
DataValues == {data[i].account : i \in 1..Len(data)}
DataGet(e) == (CHOOSE i \in 1..Len(data) : data[i].id = e)

DataSet(e, id) ==
    IF e \in DataKeys
    THEN [data EXCEPT ![DataGet(e)].account = id]
    ELSE Append(data, [id |-> e, account |-> id])
DataPop(e) == SelectSeq(data, LAMBDA kv : kv.id # e)

\* entries persisted by an earlier run of the host are configured from the
\* start; nothing of the integration has run yet
Init ==
    /\ entries \in [EntryIds -> {"none", "not_loaded"}]
    /\ dataInit = FALSE
    /\ data = <<>>
    /\ accounts = <<>>
    /\ services = {}
    /\ triggers = {}
    /\ last = Last("init", "-", "ok")
    /\ calls = <<>>
    /\ remote = <<>>
    /\ unloaded = {}
    /\ setups = 0
    /\ clock = ClockIdle

\* BMWConnectedDriveAccount.add_update_listener, called by a platform of a
\* loaded entry on the account it finds in hass.data[DOMAIN][entry_id];
\* every call registers a new callback, named by its registration number
AddUpdateListener(e) ==
    /\ clock' = clock
    /\ setups' = setups
    /\ entries[e] = "loaded"
    /\ e \in DataKeys
    /\ LET id == data[DataGet(e)].account
       IN  /\ Len(accounts[id].listeners) < MaxListeners
           /\ accounts' = [accounts EXCEPT
                              ![id].listeners = Append(@, Len(@) + 1)]
    /\ last' = Last("add_update_listener", e, "ok")
    /\ calls' = <<>>
    /\ remote' = <<>>
    /\ UNCHANGED <<entries, dataInit, data, services, triggers, unloaded>>

\* the host's time-based trigger fires cd_account.update
SchedulerFire(id) ==
    /\ clock' = clock
    /\ setups' = setups
    /\ id \in triggers
    /\ \E env \in EnvsFor(accounts[id]) :
          /\ accounts' = [accounts EXCEPT ![id] = Updated(@, env)]
          /\ calls' = <<CallRecord(id, accounts[id], env, "scheduler")>>
          /\ last' = Last("scheduler", accounts[id].entry,
                          Update(accounts[id], env).raised)
    /\ remote' = <<>>
    /\ UNCHANGED <<entries, dataInit, data, services, triggers, unloaded>>

\* UpdateAll with an empty loop
UpdateAll_NoAccount(accs, ids, envs, i) ==
    [accounts |-> accs, calls |-> <<>>, raised |-> "none"]

RECURSIVE UpdateAll(_, _, _, _)
\* _update_all: for cd_account in list(hass.data[DOMAIN].values()):
\*                  cd_account.update()
\* an exception that update() lets through ends the loop
UpdateAll(accs, ids, envs, i) ==
    IF i > Len(ids) THEN [accounts |-> accs, calls |-> <<>>, raised |-> "none"]
    ELSE LET id   == ids[i]
             rec  == CallRecord(id, accs[id], envs[i], "update_all")
             accs2 == [accs EXCEPT ![id] = Updated(@, envs[i])]
         IN  IF rec.raised # "none"
             THEN [accounts |-> accs2, calls |-> <<rec>>, raised |-> rec.raised]
             ELSE LET r == UpdateAll(accs2, ids, envs, i + 1)
                  IN  [accounts |-> r.accounts, calls |-> <<rec>> \o r.calls,
                       raised |-> r.raised]

\* setup_account: the services it leaves registered
\* if not read_only: hass.services.register(DOMAIN, service, execute_service)
SetupAccountServices(ro) ==
    IF ro THEN services ELSE services \cup RemoteCommands

\* setup_account: track_utc_time_change(hass, cd_account.update, ...); the
\* function that cancels the trigger is not kept
SetupAccountTriggers(id) == triggers \cup {id}

\* async_setup_entry
AsyncSetupEntry(e) ==
    /\ clock' = clock
    /\ entries[e] = "not_loaded"
    /\ Len(accounts) < MaxAccounts
    /\ LET ro   == ReadOnly[e]
           id   == Len(accounts) + 1
           acc0 == NewAccount(e, ro)
       IN  \E env \in EnvsFor(acc0) :
           LET first == CallRecord(id, acc0, env, "setup")
               accs1 == Append(accounts, Updated(acc0, env))
           IN  /\ dataInit' = TRUE
               /\ triggers' = SetupAccountTriggers(id)
               /\ remote' = <<>>
               /\ unloaded' = unloaded
               /\ IF first.raised # "none"
                  THEN \* except Exception: raise ConfigEntryNotReady
                       /\ accounts' = accs1
                       /\ services' = SetupAccountServices(ro)
                       /\ data' = data
                       /\ calls' = <<first>>
                       /\ entries' = [entries EXCEPT ![e] = "not_loaded"]
                       /\ setups' = setups
                       /\ last' = Last("setup", e, "ConfigEntryNotReady")
                  ELSE LET data1 == DataSet(e, id)
                           ids   == [i \in 1..Len(data1) |-> data1[i].account]
                       IN  \E envs \in EnvsForAll(accs1, ids) :
                           LET r == UpdateAll(accs1, ids, envs, 1)
                           IN  /\ accounts' = r.accounts
                               /\ services' = SetupAccountServices(ro)
                                                \cup {SERVICE_UPDATE_STATE}
                               /\ data' = data1
                               /\ calls' = <<first>> \o r.calls
                               /\ entries' = [entries EXCEPT ![e] =
                                     IF r.raised = "none" THEN "loaded"
                                     ELSE "not_loaded"]
                               /\ setups' = IF r.raised = "none"
                                             THEN setups + 1 ELSE setups
                               /\ last' = Last("setup", e,
                                     IF r.raised = "none" THEN "ok"
                                     ELSE r.raised)

\* all(results)
All(results) == \A x \in DOMAIN results : results[x]

\* the results a gather over steps may collect: each step reports success
\* or failure
Reports(steps) ==
    {[x \in steps |-> x \notin f] :
        f \in {g \in SUBSET steps : Cardinality(g) <= MaxFailures}}

\* ServicesToRemove without SERVICE_UPDATE_STATE appended to the list
ServicesToRemove_MapOnly(n) == IF n = 1 THEN RemoteCommands ELSE {}

\* Only remove services if it is the last account:
\* if len(hass.data[DOMAIN]) == 1: services = list(_SERVICE_MAP) +
\* [SERVICE_UPDATE_STATE]
ServicesToRemove(n) == IF n = 1 THEN AllCommands ELSE {}

\* PopCondition testing the platform unloads alone
PopCondition_PlatformsOnly(unload_ok, unload_services) == unload_ok

\* if all([unload_ok, unload_services]): hass.data[DOMAIN].pop(entry_id)
PopCondition(unload_ok, unload_services) ==
    All(<<unload_ok, unload_services>>)

\* async_unload_entry; pres and sres are the results the host reports for
\* the platform unloads and for the command removals
AsyncUnloadEntry(e) ==
    /\ clock' = clock
    /\ setups' = setups
    /\ entries[e] = "loaded"
    /\ \E pres \in Reports(BMW_COMPONENTS),
          sres \in Reports(ServicesToRemove(Len(data))) :
       LET unload_ok == All(pres)
           lastOne   == Len(data) = 1
           attempted == DOMAIN sres
           unload_services == IF lastOne THEN All(sres) ELSE TRUE
           pop       == PopCondition(unload_ok, unload_services)
           failed    == (\E c \in BMW_COMPONENTS : ~pres[c])
                        \/ (\E s \in attempted : ~sres[s])
       IN  /\ services' = services \ attempted
           /\ data' = IF pop THEN DataPop(e) ELSE data
           /\ unloaded' = IF pop THEN unloaded \cup {data[DataGet(e)].account}
                           ELSE unloaded
           /\ entries' = [entries EXCEPT ![e] =
                             IF unload_ok THEN "not_loaded" ELSE "failed_unload"]
           /\ last' = [Last("unload", e, IF unload_ok THEN "true" ELSE "false")
                          EXCEPT !.inMap = DataKeys,
                                 !.before = services,
                                 !.unload = [unload_ok |-> unload_ok,
                                             unload_services |-> unload_services,
                                             attempted |-> attempted,
                                             failed |-> failed,
                                             popped |-> pop,
                                             len |-> Len(data)]]
    /\ calls' = <<>>
    /\ remote' = <<>>
    /\ UNCHANGED <<dataInit, accounts, triggers>>

\* AlreadyConfigured with the unique-id check left out
AlreadyConfigured_NoCheck(e) == FALSE

\* await self.async_set_unique_id(unique_id);
\* self._abort_if_unique_id_configured(): an entry with the identity
\* region-username exists
AlreadyConfigured(e) == entries[e] # "none"

\* config flow, async_step_user / async_step_import: the identity is
\* already configured, _abort_if_unique_id_configured ends the flow
FlowAbort(e) ==
    /\ clock' = clock
    /\ setups' = setups
    /\ AlreadyConfigured(e)
    /\ last' = Last("flow", e, "already_configured")
    /\ calls' = <<>>
    /\ remote' = <<>>
    /\ UNCHANGED <<entries, dataInit, data, accounts, services, triggers, unloaded>>

\* config flow, async_step_user with validate_input: setup_account and one
\* update(); any exception becomes InvalidAuth and the form error
FlowProbe(e) ==
    /\ clock' = clock
    /\ setups' = setups
    /\ ~AlreadyConfigured(e)
    /\ Len(accounts) < MaxAccounts
    /\ LET ro   == ReadOnly[e]
           id   == Len(accounts) + 1
           acc0 == NewAccount(e, ro)
       IN  \E env \in EnvsFor(acc0) :
           LET first == CallRecord(id, acc0, env, "probe")
           IN  /\ accounts' = Append(accounts, Updated(acc0, env))
               /\ services' = SetupAccountServices(ro)
               /\ triggers' = SetupAccountTriggers(id)
               /\ calls' = <<first>>
               /\ IF first.raised # "none"
                  THEN /\ entries' = entries
                       /\ last' = Last("flow", e, "invalid_auth")
                  ELSE /\ entries' = [entries EXCEPT ![e] = "not_loaded"]
                       /\ last' = Last("flow", e, "create_entry")
    /\ remote' = <<>>
    /\ UNCHANGED <<dataInit, data, unloaded>>

\* execute_service(call): what the dispatch of a remote command does.
\* hass.data[DOMAIN] is looked up first (KeyError when setup-entry never
\* ran).  The comprehension iterates the dict itself, so its elements are
\* the entry ids; an entry id is a string and has no read_only attribute, so
\* the first element raises AttributeError.  Only the empty dict gets past
\* the loop, with vehicle = None: the error is logged and the call returns.
\* function_call() is therefore never reached.
ExecuteServiceResult(service, vin) ==
    IF ~dataInit THEN [raised |-> "KeyError", invoked |-> <<>>]
    ELSE IF Len(data) > 0 THEN [raised |-> "AttributeError", invoked |-> <<>>]
    ELSE [raised |-> "none", invoked |-> <<>>]

\* the host dispatches a registered remote command to execute_service
ExecuteService(service, vin) ==
    /\ clock' = clock
    /\ setups' = setups
    /\ service \in services \cap RemoteCommands
    /\ LET r == ExecuteServiceResult(service, vin)
       IN  /\ remote' = r.invoked
           /\ last' = [Last(service, vin, r.raised) EXCEPT !.inMap = DataKeys]
    /\ calls' = <<>>
    /\ UNCHANGED <<entries, dataInit, data, accounts, services, triggers, unloaded>>

\* positional arguments the host passes to a service handler (the call)
ServiceCallArgs == 1
\* positional parameters of _update_all
UpdateAllParams == 0

\* the host dispatches update_state to _update_all, passing the call
UpdateStateService ==
    /\ clock' = clock
    /\ setups' = setups
    /\ SERVICE_UPDATE_STATE \in services
    /\ IF ServiceCallArgs # UpdateAllParams
       THEN /\ accounts' = accounts
            /\ calls' = <<>>
            /\ last' = Last(SERVICE_UPDATE_STATE, "-", "TypeError")
       ELSE LET ids == [i \in 1..Len(data) |-> data[i].account]
            IN  \E envs \in EnvsForAll(accounts, ids) :
                LET r == UpdateAll(accounts, ids, envs, 1)
                IN  /\ accounts' = r.accounts
                    /\ calls' = r.calls
                    /\ last' = Last(SERVICE_UPDATE_STATE, "-", r.raised)
    /\ remote' = <<>>
    /\ UNCHANGED <<entries, dataInit, data, services, triggers, unloaded>>

\* ------------------------------------------------------ periodic trigger
UPDATE_INTERVAL == 5
\* minutes of the wall clock: range(..., 60, ...)
MinutesPerHour == 60
\* the second values that are followed: the first and the last of a minute
Seconds == {0, 59}
Times == [minute : 0..(MinutesPerHour - 1), second : Seconds]

\* range(start, stop, step)
Range(start, stop, step) ==
    {m \in start..(stop - 1) : (m - start) % step = 0}

\* PhaseOffset without the modulo
PhaseOffset_Minute(minute) == minute

\* now.minute % UPDATE_INTERVAL
PhaseOffset(minute) == minute % UPDATE_INTERVAL

\* Schedule with the range starting at the minute of setup
Schedule_FromMinute(now) ==
    [offset |-> PhaseOffset(now.minute),
     minute |-> Range(now.minute, MinutesPerHour, UPDATE_INTERVAL),
     second |-> now.second]

\* the pattern setup_account registers:
\* minute=range(now.minute % UPDATE_INTERVAL, 60, UPDATE_INTERVAL),
\* second=now.second
Schedule(now) ==
    [offset |-> PhaseOffset(now.minute),
     minute |-> Range(PhaseOffset(now.minute), MinutesPerHour,
                      UPDATE_INTERVAL),
     second |-> now.second]

\* track_utc_time_change calls the action when minute and second of the
\* clock match the pattern; the hour is not constrained
Matches(sched, now) ==
    now.minute \in sched.minute /\ now.second = sched.second

\* the clock is followed from an arbitrary time, nothing set up yet
InitClock ==
    /\ entries = [e \in EntryIds |-> "none"]
    /\ dataInit = FALSE
    /\ data = <<>>
    /\ accounts = <<>>
    /\ services = {}
    /\ triggers = {}
    /\ last = Last("init", "-", "ok")
    /\ calls = <<>>
    /\ remote = <<>>
    /\ unloaded = {}
    /\ setups = 0
    /\ clock \in [now : Times, setupAt : {<<>>}, sched : {<<>>},
                  fired : {{}}, read : {FALSE}]

core == <<entries, dataInit, data, accounts, services, triggers, last, calls,
          remote, unloaded, setups>>

\* setup_account, lines 176-182, for the first account: now = utcnow()
ClockSetupAccount ==
    /\ clock.sched = <<>>
    /\ clock' = [clock EXCEPT !.setupAt = <<clock.now>>,
                              !.sched = <<Schedule(clock.now)>>]
    /\ UNCHANGED core

\* setup_account, lines 176-182, for a second account that is set up at
\* minute m2 and at the same second value, before the clock is read
ClockSetupSecond(m2) ==
    /\ Len(clock.sched) = 1
    /\ ~clock.read
    /\ LET now == [minute |-> m2, second |-> clock.now.second]
       IN  clock' = [clock EXCEPT !.now = now,
                                  !.setupAt = Append(@, now),
                                  !.sched = Append(@, Schedule(now))]
    /\ UNCHANGED core

\* time passes and the host reads the clock at t: the patterns that match
\* fire; the clock is followed for the first account alone
ClockRead(t) ==
    /\ Len(clock.sched) = 1
    /\ clock' = [clock EXCEPT !.now = t,
                              !.fired = {i \in 1..Len(clock.sched) :
                                            Matches(clock.sched[i], t)},
                              !.read = TRUE]
    /\ UNCHANGED core

NextClock ==
    \/ ClockSetupAccount
    \/ \E m2 \in 0..(MinutesPerHour - 1) : ClockSetupSecond(m2)
    \/ \E t \in Times : ClockRead(t)

SpecClock == InitClock /\ [][NextClock]_vars

Next ==
    \/ \E e \in EntryIds : FlowProbe(e)
    \/ \E e \in EntryIds : FlowAbort(e)
    \/ \E e \in EntryIds : AsyncSetupEntry(e)
    \/ \E e \in EntryIds : AsyncUnloadEntry(e)
    \/ \E e \in EntryIds : AddUpdateListener(e)
    \/ \E id \in 1..MaxAccounts : SchedulerFire(id)
    \/ \E s \in RemoteCommands, v \in Vins : ExecuteService(s, v)
    \/ UpdateStateService

Spec == Init /\ [][Next]_vars

\* the handlers that register and deregister: config flow, setup-entry and
\* unload-entry.  The other handlers leave entries, data and services alone.
NextLifecycle ==
    \/ \E e \in EntryIds : FlowProbe(e)
    \/ \E e \in EntryIds : FlowAbort(e)
    \/ \E e \in EntryIds : AsyncSetupEntry(e)
    \/ \E e \in EntryIds : AsyncUnloadEntry(e)

SpecLifecycle == Init /\ [][NextLifecycle]_vars

\* the handlers that reach update() and add_update_listener: the probe,
\* setup-entry, the platforms, the periodic trigger and update_state
NextAccount ==
    \/ \E e \in EntryIds : FlowProbe(e)
    \/ \E e \in EntryIds : AsyncSetupEntry(e)
    \/ \E e \in EntryIds : AddUpdateListener(e)
    \/ \E id \in 1..MaxAccounts : SchedulerFire(id)
    \/ UpdateStateService

SpecAccount == Init /\ [][NextAccount]_vars

\* ------------------------------------------------------------ properties
\* the update() calls of the handler that ran last
CallIndex == 1..Len(calls)

\* a remote command was dispatched last; last.entry is the VIN of the call
Dispatched == last.op \in RemoteCommands

\* the non-read-only accounts of the live-account map that hold vin
Holders(vin) ==
    {id \in DataValues :
        ~accounts[id].read_only /\ vin \in accounts[id].snapshot}

\* C1: an update() whose vendor refresh succeeds invokes every registered
\* listener exactly once, in registration order.
C1_RefreshNotifiesAllListeners ==
    \A i \in CallIndex :
        calls[i].refresh = "ok" => calls[i].invoked = calls[i].listeners

\* C2: an update() whose vendor refresh fails with an I/O error invokes no
\* listener, leaves the cached snapshot and the listener list as they were,
\* and returns normally.
C2_TransportFailureSwallowed ==
    \A i \in CallIndex :
        calls[i].refresh = "OSError" =>
            /\ calls[i].invoked = <<>>
            /\ calls[i].after = calls[i].before
            /\ accounts[calls[i].account].listeners = calls[i].listeners
            /\ calls[i].raised = "none"

\* C2 happens: a refresh fails with an I/O error on an account that has
\* listeners and a cached snapshot
C2_Witness ==
    \E i \in CallIndex :
        /\ calls[i].refresh = "OSError"
        /\ calls[i].listeners # <<>>
        /\ calls[i].before # {}
        /\ accounts[calls[i].account].snapshot = calls[i].before

\* C3: dispatching a remote command with a VIN that exactly one
\* non-read-only account of the map holds invokes the mapped remote-control
\* method on that vehicle exactly once, and nothing else.
C3_DispatchInvokesMappedMethod ==
    (Dispatched /\ Cardinality(Holders(last.entry)) = 1) =>
        remote = <<[vin |-> last.entry, method |-> _SERVICE_MAP[last.op]]>>

\* C4: dispatching a remote command with a VIN that no non-read-only account
\* of the map holds invokes no remote-control method and raises nothing.
C4_UnknownVinIsDropped ==
    (Dispatched /\ Holders(last.entry) = {}) =>
        (remote = <<>> /\ last.result = "none")

\* C5: when the initial refresh of setup-entry fails, for whatever cause,
\* setup-entry ends "not ready" and the account is not in the map.
C5_FailedInitialRefreshNotReady ==
    (last.op = "setup" /\ calls[1].refresh # "ok") =>
        /\ last.result = "ConfigEntryNotReady"
        /\ calls[1].account \notin DataValues

\* C6: unloading the only account of the map deregisters every command;
\* unloading an entry while another account is in the map leaves every
\* registered command registered.
C6_UnloadDeregistersOnlyForLast ==
    last.op = "unload" =>
        /\ last.inMap = {last.entry} => services \cap AllCommands = {}
        /\ last.inMap \ {last.entry} # {} => services = last.before

\* C6 happens: the only account, with all four commands registered, was
\* unloaded
C6_Witness ==
    /\ last.op = "unload"
    /\ last.inMap = {last.entry}
    /\ last.before = AllCommands

\* C6 happens, second case: an entry was unloaded next to another account
\* while commands were registered
C6_WitnessNotLast ==
    /\ last.op = "unload"
    /\ last.inMap = EntryIds
    /\ last.before = AllCommands

\* C7: unload-entry removes the account from the map if and only if every
\* teardown step it performed reported success.
C7_RemovedIffAllStepsSucceeded ==
    last.op = "unload" =>
        (last.entry \notin DataKeys <=> ~last.unload.failed)

\* C7 happens: every platform unload succeeded, a command deregistration
\* reported failure, and the account is still in the map
C7_Witness ==
    /\ last.op = "unload"
    /\ last.unload.unload_ok
    /\ ~last.unload.unload_services
    /\ last.entry \in DataKeys

\* C7 happens, other direction: every step succeeded and the account is gone
C7_WitnessRemoved ==
    /\ last.op = "unload"
    /\ ~last.unload.failed
    /\ last.entry \in last.inMap
    /\ last.entry \notin DataKeys

\* C8: unload-entry returns false whenever a teardown step failed; it
\* returns true only when the account was removed from the map.
C8_FalseOnAnyFailure ==
    last.op = "unload" =>
        /\ last.unload.failed => last.result = "false"
        /\ last.result = "true" => last.entry \notin DataKeys

\* C9: once unload-entry of an account has completed, the account's
\* periodic trigger is cancelled and the scheduler never calls its update().
C9_UnloadCancelsTrigger ==
    \A id \in unloaded :
        /\ id \notin triggers
        /\ ~(last.op = "scheduler" /\ calls[1].account = id)

\* C10: the remote-control commands are registered only if a non-read-only
\* account is in the live-account map.
C10_RemoteCommandsNeedReadWriteAccount ==
    services \cap RemoteCommands # {} =>
        \E id \in DataValues : ~accounts[id].read_only

\* C11: a config-flow submission whose identity matches a configured entry
\* is rejected before the probe: no account wrapper is constructed, no
\* trigger or command is registered and no refresh is performed for it.
C11_DuplicateRejectedBeforeProbe ==
    [][\A e \in EntryIds :
         (entries[e] # "none" /\ last'.op = "flow" /\ last'.entry = e) =>
             /\ last'.result = "already_configured"
             /\ accounts' = accounts
             /\ triggers' = triggers
             /\ services' = services
             /\ calls' = <<>>]_vars

\* C11 happens: a submission for a configured identity was rejected after
\* account wrappers had been constructed for earlier submissions
C11_Witness ==
    /\ last.op = "flow"
    /\ last.result = "already_configured"
    /\ entries[last.entry] # "none"
    /\ accounts # <<>>

\* the form error that corresponds to the cause of a failed probe: the
\* connectivity error for an I/O error; for any other exception the
\* authentication error or the unknown error
FormErrorsFor(cause) ==
    IF cause = "OSError" THEN {"cannot_connect"}
    ELSE {"invalid_auth", "unknown"}

\* C12: when the refresh of the config-flow probe fails, no entry is
\* created and the form error corresponds to the cause of the failure.
C12_ProbeFailureClassified ==
    (last.op = "flow" /\ calls # <<>> /\ calls[1].refresh # "ok") =>
        /\ entries[last.entry] = "none"
        /\ last.result \in FormErrorsFor(calls[1].refresh)

\* two accounts were set up, at the same second value
TwoSetUp ==
    /\ Len(clock.sched) = 2
    /\ clock.setupAt[1].second = clock.setupAt[2].second

\* C13 as stated: for two accounts set up at the same second value, the
\* phase offsets differ if and only if the setup minutes differ.
C13_OffsetsDifferIffMinutesDiffer ==
    TwoSetUp =>
        (clock.sched[1].offset # clock.sched[2].offset
            <=> clock.setupAt[1].minute # clock.setupAt[2].minute)

\* C13 amended: for two accounts set up at the same second value, the phase
\* offsets differ, and the two triggers never fire in the same minute, if
\* and only if the setup minutes are not a multiple of UPDATE_INTERVAL apart.
C13_OffsetsDifferIffMinutesApart ==
    TwoSetUp =>
        LET apart == (clock.setupAt[1].minute + MinutesPerHour
                        - clock.setupAt[2].minute) % 5 # 0
        IN  /\ clock.sched[1].offset # clock.sched[2].offset <=> apart
            /\ clock.sched[1].minute \cap clock.sched[2].minute = {} <=> apart

\* C13 happens: two accounts set up at different minutes got one offset
C13_Witness ==
    /\ TwoSetUp
    /\ clock.setupAt[1].minute # clock.setupAt[2].minute
    /\ clock.sched[1].offset = clock.sched[2].offset

\* minutes from minute m to the next minute the pattern matches
NextGap(sched, m) ==
    CHOOSE d \in 1..MinutesPerHour :
        /\ (m + d) % MinutesPerHour \in sched.minute
        /\ \A k \in 1..(d - 1) : (m + k) % MinutesPerHour \notin sched.minute

\* C16: the trigger of an account set up at minute m0, second s0 fires at
\* (m, s) if and only if m mod 5 = m0 mod 5 and s = s0; the next firing is
\* exactly 5 minutes later, also across the hour boundary; the pattern stays
\* registered as it was.
C16_FiresEveryFiveMinutes ==
    (clock.read /\ Len(clock.sched) = 1) =>
        LET m0 == clock.setupAt[1].minute
            s0 == clock.setupAt[1].second
        IN  /\ 1 \in clock.fired <=>
                  (clock.now.minute % 5 = m0 % 5 /\ clock.now.second = s0)
            /\ 1 \in clock.fired =>
                  NextGap(clock.sched[1], clock.now.minute) = 5
            /\ clock.sched[1].minute =
                  {m \in 0..59 : \E k \in 0..11 : m = (m0 + 5 * k) % 60}
            /\ clock.sched[1].second = s0

\* C16 happens: the trigger fired at another minute than the minute of
\* setup, in the last 5 minutes of the hour (the next firing is in the next
\* hour)
C16_Witness ==
    /\ clock.read
    /\ 1 \in clock.fired
    /\ clock.now.minute # clock.setupAt[1].minute
    /\ clock.now.minute >= MinutesPerHour - UPDATE_INTERVAL

\* the accounts of the live-account map, in the order of the map
MapAccounts == [i \in 1..Len(data) |-> data[i].account]

\* the accounts update() was called on by the handler that ran last, in
\* the order of the calls
CalledAccounts == [i \in 1..Len(calls) |-> calls[i].account]

\* C14: invoking update_state calls update() exactly once on every account
\* of the live-account map, one after the other, and on no other account.
C14_UpdateStateUpdatesEveryAccount ==
    last.op = SERVICE_UPDATE_STATE => CalledAccounts = MapAccounts

\* C15: an exception raised by a listener during update() propagates to the
\* caller of update() whatever its type, and the listeners registered after
\* the failing one are not invoked.
C15_ListenerExceptionPropagates ==
    \A i \in CallIndex :
        calls[i].fanout # "none" =>
            /\ calls[i].raised = calls[i].fanout
            /\ Len(calls[i].invoked) <= Len(calls[i].listeners)
            /\ calls[i].invoked =
                   SubSeq(calls[i].listeners, 1, Len(calls[i].invoked))

\* a setup-entry completed successfully; the account it created is the one
\* the map holds for its entry
SetupDone == last.op = "setup" /\ last.result = "ok"
SetupAccount == data[DataGet(last.entry)].account

\* C18 as stated: a successful setup-entry calls update() exactly once, on
\* the account it created, and on no other account.
C18_SetupUpdatesNewAccountOnce ==
    SetupDone => CalledAccounts = <<SetupAccount>>

\* C18 amended: a successful setup-entry calls update() on the account it
\* created, and then once on every account of the map in map order, the
\* new account included.
C18_SetupUpdatesNewThenAll ==
    SetupDone =>
        /\ last.entry \in DataKeys
        /\ CalledAccounts = <<SetupAccount>> \o MapAccounts

\* C18 happens: a setup-entry completed with another entry's account in the
\* map
C18_Witness ==
    /\ SetupDone
    /\ Len(data) = 2
    /\ \E i \in CallIndex : calls[i].account # SetupAccount

\* C19: an account wrapper that never enters the live-account map leaves no
\* periodic trigger registered: the registered triggers are never more than
\* the setup-entry calls that completed successfully.
C19_NoTriggerWithoutSetup ==
    /\ Cardinality(triggers) <= setups
    /\ (last.op = "flow" /\ calls # <<>>) => calls[1].account \notin triggers
    /\ (last.op = "setup" /\ last.result = "ConfigEntryNotReady") =>
           calls[1].account \notin triggers

\* C20: outside of setup-entry and unload-entry calls in progress, the
\* update_state command is registered whenever the live-account map holds
\* an account.
C20_UpdateStateRegisteredWhileAccounts ==
    Len(data) > 0 => SERVICE_UPDATE_STATE \in services
====
